---- MODULE Spec2Model ----
(***************************************************************************)
(* Model of the zstd compression-backend layer of stargz-snapshotter:      *)
(* backend selection (selector.go), the two backend wrappers               *)
(* (PureGoCompressor, GozstdCompressor) and their stream sessions.         *)
(***************************************************************************)
EXTENDS Integers, Sequences, FiniteSets, TLC

VARIABLES
    envForcePureGo,     \* value of STARGZ_FORCE_PURE_GO_ZSTD ("" = unset)
    envForceImpl,       \* value of ZSTD_FORCE_IMPLEMENTATION ("" = unset)
    libzstd,            \* what gozstd.Compress does on this host
    once,               \* sync.Once: "idle", "running" (f executing), "done"
    defaultCompressor,  \* package variable defaultCompressor
    pc,                 \* per caller: position inside GetCompressor
    result,             \* per caller: value its last GetCompressor returned
    calls,              \* number of GetCompressor calls started so far
    afterSet,           \* per caller: its current call began after the last SetCompressor
    early,              \* per caller: its current call began before once was done
    probeRuns,          \* number of NewGozstdCompressor runs made by GetCompressor
    probeRet,           \* value the last NewGozstdCompressor run returned
    nextId,             \* next fresh heap address of a GozstdCompressor
    setCount,           \* number of completed SetCompressor calls
    lastSet,            \* argument of the last completed SetCompressor
    setWhenDone,        \* was once "done" when the last SetCompressor ran
    selForce,           \* STARGZ_FORCE_PURE_GO_ZSTD as read by once's f ("unread" before)
    selImpl,            \* ZSTD_FORCE_IMPLEMENTATION at the time f ran
    autoSel,            \* instance f assigned to defaultCompressor (Nil if none)
    \* ---- host and stream sessions ----
    envWorkers,         \* value of ZSTD_WORKERS, a string of characters (<<>> = unset)
    physCores,          \* cpu.Counts(false): [ok, n]
    logicalCPUs,        \* runtime.NumCPU()
    gAvailable,         \* field `available` of the GozstdCompressor used for streams
    workerCall,         \* the last GetOptimalWorkerCount call: what it read and returned
    failAfter,          \* the sink's limit (failingWriter.failAfter), NoLimit for a buffer
    cgoCalls,           \* number of calls into gozstd/libzstd made by NewWriter/NewReader
    wReq,               \* arguments of the last NewWriter call
    w,                  \* the writer session
    sink,               \* what the writer has written to its io.Writer
    written,            \* concatenation of the chunks accepted by Write
    wRes,               \* outcome of the last NewWriter/Write/Flush/Close call
    r,                  \* the reader session
    rRes,               \* outcome of the last NewReader/Read/Close call
    \* ---- concurrent sessions on one backend instance ----
    sess                \* per goroutine: its writer, its buffer and its reader

selVars == <<envForcePureGo, envForceImpl, libzstd, once, defaultCompressor,
             pc, result, calls, afterSet, early, probeRuns, probeRet, nextId,
             setCount, lastSet, setWhenDone, selForce, selImpl, autoSel>>

hostVars == <<envWorkers, physCores, logicalCPUs, gAvailable, workerCall>>

streamVars == <<w, sink, written, wRes, r, rRes, failAfter, cgoCalls, wReq>>

concVars == <<sess>>

vars == <<selVars, hostVars, streamVars, concVars>>

----------------------------------------------------------------------------
(* Bounds of the model *)

NumCallers == 2
MaxCalls == 3
MaxSets == 1

Callers == 1..NumCallers

----------------------------------------------------------------------------
(* Backend instances.  A Compressor interface value is nil or a pointer to *)
(* a PureGoCompressor or a GozstdCompressor.  PureGoCompressor is a        *)
(* zero-size struct: every heap pointer to one is the same address, so all *)
(* of them are one identity.  GozstdCompressor holds a bool, so each       *)
(* allocation has its own address (id).                                    *)

Nil == [kind |-> "nil", available |-> FALSE, id |-> 0]

NewPureGoCompressor == [kind |-> "purego", available |-> FALSE, id |-> 0]

GozstdCompressor(available, id) ==
    [kind |-> "gozstd", available |-> available, id |-> id]

ProbeOutcomes == {"works", "error", "panic"}

\* Mutant: the recovered fault still yields an object with available = FALSE.
NewGozstdCompressorRecovered(outcome, id) ==
    GozstdCompressor(outcome = "works", id)

\* NewGozstdCompressor: the probe encodes "test".  The deferred recover()
\* only assigns the local `available`; the function has no named result, so
\* after a recovered panic it returns the zero value, a nil pointer.
NewGozstdCompressor(outcome, id) ==
    CASE outcome = "works" -> GozstdCompressor(TRUE, id)
      [] outcome = "error" -> GozstdCompressor(FALSE, id)
      [] outcome = "panic" -> Nil

\* c.IsLibzstdAvailable() for a non-nil c
IsLibzstdAvailable(c) ==
    IF c.kind = "purego" THEN FALSE ELSE c.available

\* c.Name() for a non-nil c
Name(c) ==
    IF c.kind = "purego" THEN "pure-go (klauspost/compress)"
    ELSE IF c.available THEN "libzstd (via gozstd)"
    ELSE "gozstd (unavailable)"

PureGoMaxLevel == 11
GozstdMaxLevel == 22

\* Mutant: the two backends' maxima are swapped.
MaxCompressionLevelSwapped(c) ==
    IF c.kind = "purego" THEN GozstdMaxLevel
    ELSE IF c.available THEN PureGoMaxLevel
    ELSE 0

\* c.MaxCompressionLevel() for a non-nil c
MaxCompressionLevel(c) ==
    IF c.kind = "purego" THEN PureGoMaxLevel
    ELSE IF c.available THEN GozstdMaxLevel
    ELSE 0

----------------------------------------------------------------------------
(* Environment *)

ForcePureGoValues == {"", "1"}
ForceImplValues == {"", "klauspost", "gozstd", "invalid"}

\* os.Setenv on one of the two override variables (tests do this)
Setenv ==
    /\ \/ /\ envForcePureGo' \in ForcePureGoValues \ {envForcePureGo}
          /\ UNCHANGED envForceImpl
       \/ /\ envForceImpl' \in ForceImplValues \ {envForceImpl}
          /\ UNCHANGED envForcePureGo
    /\ UNCHANGED <<libzstd, once, defaultCompressor, pc, result, calls, afterSet,
                   probeRuns, probeRet, nextId, setCount, lastSet, setWhenDone,
                   selForce, selImpl, autoSel, early>>
    /\ UNCHANGED <<hostVars, streamVars, concVars>>

----------------------------------------------------------------------------
(* GetCompressor *)

\* A caller enters GetCompressor.  Callers are interchangeable goroutines:
\* they are numbered in the order of their first call.
Call(p) ==
    /\ pc[p] \in {"idle", "returned"}
    /\ \A q \in Callers : q < p => pc[q] # "idle"
    /\ calls < MaxCalls
    /\ calls' = calls + 1
    /\ afterSet' = [afterSet EXCEPT ![p] = setCount > 0]
    /\ result' = [result EXCEPT ![p] = Nil]
    /\ early' = [early EXCEPT ![p] = (once # "done")]
    /\ pc' = [pc EXCEPT ![p] = "do"]
    /\ UNCHANGED <<envForcePureGo, envForceImpl, libzstd, once,
                   defaultCompressor, probeRuns, probeRet, nextId, setCount,
                   lastSet, setWhenDone, selForce, selImpl, autoSel>>
    /\ UNCHANGED <<hostVars, streamVars, concVars>>

\* Mutant: a check-then-act guard instead of sync.Once (no mutual exclusion).
OnceDoUnguarded(p) ==
    /\ pc[p] = "do"
    /\ IF once = "done"
         THEN pc' = [pc EXCEPT ![p] = "ret"] /\ UNCHANGED once
         ELSE pc' = [pc EXCEPT ![p] = "f"] /\ once' = "running"
    /\ UNCHANGED <<envForcePureGo, envForceImpl, libzstd,
                   defaultCompressor, result, calls, afterSet, probeRuns, probeRet,
                   nextId, setCount, lastSet, setWhenDone, selForce, selImpl,
                   autoSel, early>>
    /\ UNCHANGED <<hostVars, streamVars, concVars>>

\* Mutant: a caller that finds the override changed since the selection
\* runs the selection again.
OnceDoRecheck(p) ==
    /\ pc[p] = "do"
    /\ once # "running"
    /\ IF once = "done" /\ envForcePureGo = selForce
         THEN pc' = [pc EXCEPT ![p] = "ret"] /\ UNCHANGED once
         ELSE pc' = [pc EXCEPT ![p] = "f"] /\ once' = "running"
    /\ UNCHANGED <<envForcePureGo, envForceImpl, libzstd,
                   defaultCompressor, result, calls, afterSet, probeRuns, probeRet,
                   nextId, setCount, lastSet, setWhenDone, selForce, selImpl,
                   autoSel, early>>
    /\ UNCHANGED <<hostVars, streamVars, concVars>>

\* once.Do(f): the first caller runs f; a caller arriving while f runs
\* blocks until it is done; for a caller arriving after, Do is a no-op.
OnceDo(p) ==
    /\ pc[p] = "do"
    /\ once # "running"
    /\ IF once = "done"
         THEN pc' = [pc EXCEPT ![p] = "ret"] /\ UNCHANGED once
         ELSE pc' = [pc EXCEPT ![p] = "f"] /\ once' = "running"
    /\ UNCHANGED <<envForcePureGo, envForceImpl, libzstd,
                   defaultCompressor, result, calls, afterSet, probeRuns, probeRet,
                   nextId, setCount, lastSet, setWhenDone, selForce, selImpl,
                   autoSel, early>>
    /\ UNCHANGED <<hostVars, streamVars, concVars>>

\* Mutant: f's completion is not recorded, so the next call decides again.
FRunNoMemo(p) ==
    /\ pc[p] = "f"
    /\ selForce' = envForcePureGo
    /\ selImpl' = envForceImpl
    /\ once' = "idle"
    /\ probeRuns' = probeRuns + 1
    /\ probeRet' = NewGozstdCompressor(libzstd, nextId)
    /\ nextId' = nextId + 1
    /\ defaultCompressor' =
          IF probeRet' # Nil /\ IsLibzstdAvailable(probeRet')
            THEN probeRet' ELSE NewPureGoCompressor
    /\ autoSel' = defaultCompressor'
    /\ pc' = [pc EXCEPT ![p] = "ret"]
    /\ UNCHANGED <<envForcePureGo, envForceImpl, libzstd, result,
                   calls, afterSet, setCount, lastSet, setWhenDone, early>>
    /\ UNCHANGED <<hostVars, streamVars, concVars>>

\* Mutant: the probe runs before the override is looked at.
FRunProbeFirst(p) ==
    /\ pc[p] = "f"
    /\ selForce' = envForcePureGo
    /\ selImpl' = envForceImpl
    /\ once' = "done"
    /\ probeRuns' = probeRuns + 1
    /\ probeRet' = NewGozstdCompressor(libzstd, nextId)
    /\ nextId' = nextId + 1
    /\ defaultCompressor' =
          IF envForcePureGo # "1" /\ probeRet' # Nil /\ IsLibzstdAvailable(probeRet')
            THEN probeRet' ELSE NewPureGoCompressor
    /\ autoSel' = defaultCompressor'
    /\ pc' = [pc EXCEPT ![p] = "ret"]
    /\ UNCHANGED <<envForcePureGo, envForceImpl, libzstd, result,
                   calls, afterSet, setCount, lastSet, setWhenDone, early>>
    /\ UNCHANGED <<hostVars, streamVars, concVars>>

\* The function passed to once.Do.  sync.Once marks itself done in a defer,
\* so it is done also when f panics.
FRun(p) ==
    /\ pc[p] = "f"
    /\ selForce' = envForcePureGo
    /\ selImpl' = envForceImpl
    /\ once' = "done"
    /\ IF envForcePureGo = "1"
         THEN \* forced pure Go: no probe
              /\ defaultCompressor' = NewPureGoCompressor
              /\ autoSel' = defaultCompressor'
              /\ pc' = [pc EXCEPT ![p] = "ret"]
              /\ UNCHANGED <<probeRuns, probeRet, nextId>>
         ELSE /\ probeRuns' = probeRuns + 1
              /\ probeRet' = NewGozstdCompressor(libzstd, nextId)
              /\ nextId' = nextId + 1
              /\ IF probeRet' = Nil
                   THEN \* gozstd.IsLibzstdAvailable() on a nil *GozstdCompressor:
                        \* nil dereference, the panic leaves GetCompressor
                        /\ pc' = [pc EXCEPT ![p] = "panicked"]
                        /\ UNCHANGED <<defaultCompressor, autoSel>>
                   ELSE /\ defaultCompressor' =
                              IF IsLibzstdAvailable(probeRet')
                                THEN probeRet' ELSE NewPureGoCompressor
                        /\ autoSel' = defaultCompressor'
                        /\ pc' = [pc EXCEPT ![p] = "ret"]
    /\ UNCHANGED <<envForcePureGo, envForceImpl, libzstd, result,
                   calls, afterSet, setCount, lastSet, setWhenDone, early>>
    /\ UNCHANGED <<hostVars, streamVars, concVars>>

\* return defaultCompressor
Return(p) ==
    /\ pc[p] = "ret"
    /\ result' = [result EXCEPT ![p] = defaultCompressor]
    /\ pc' = [pc EXCEPT ![p] = "returned"]
    /\ UNCHANGED <<envForcePureGo, envForceImpl, libzstd, once,
                   defaultCompressor, calls, afterSet, probeRuns, probeRet, nextId,
                   setCount, lastSet, setWhenDone, selForce, selImpl, autoSel, early>>
    /\ UNCHANGED <<hostVars, streamVars, concVars>>

GetCompressor(p) == Call(p) \/ OnceDo(p) \/ FRun(p) \/ Return(p)

----------------------------------------------------------------------------
(* SetCompressor *)

\* Instances a test can hand to SetCompressor: a PureGoCompressor, the
\* result of its own NewGozstdCompressor() when that returns an object, or
\* a GozstdCompressor literal (available = false).
SetArgs(id) ==
    {NewPureGoCompressor, GozstdCompressor(FALSE, id)}
      \cup (IF libzstd = "panic" THEN {} ELSE {NewGozstdCompressor(libzstd, id)})

\* Mutant: the override is applied only while nothing is selected yet.
SetCompressorIfUnset(c) ==
    /\ setCount < MaxSets
    /\ c \in SetArgs(nextId)
    /\ defaultCompressor' = IF defaultCompressor = Nil THEN c ELSE defaultCompressor
    /\ setCount' = setCount + 1
    /\ lastSet' = c
    /\ setWhenDone' = (once = "done")
    /\ nextId' = nextId + 1
    /\ afterSet' = [p \in Callers |-> FALSE]
    /\ UNCHANGED <<envForcePureGo, envForceImpl, libzstd, once, pc, result,
                   calls, probeRuns, probeRet, selForce, selImpl, autoSel, early>>
    /\ UNCHANGED <<hostVars, streamVars, concVars>>

\* SetCompressor(c): defaultCompressor = c, outside the sync.Once
SetCompressor(c) ==
    /\ setCount < MaxSets
    /\ c \in SetArgs(nextId)
    /\ defaultCompressor' = c
    /\ setCount' = setCount + 1
    /\ lastSet' = c
    /\ setWhenDone' = (once = "done")
    /\ nextId' = nextId + 1
    /\ afterSet' = [p \in Callers |-> FALSE]
    /\ UNCHANGED <<envForcePureGo, envForceImpl, libzstd, once, pc, result,
                   calls, probeRuns, probeRet, selForce, selImpl, autoSel, early>>
    /\ UNCHANGED <<hostVars, streamVars, concVars>>

----------------------------------------------------------------------------
(* Worker heuristic (cpu_cores.go) *)

DigitChars == {"0", "1", "2", "3", "4", "5", "6", "7", "8", "9"}

DigitVal(c) ==
    CASE c = "0" -> 0 [] c = "1" -> 1 [] c = "2" -> 2 [] c = "3" -> 3
      [] c = "4" -> 4 [] c = "5" -> 5 [] c = "6" -> 6 [] c = "7" -> 7
      [] c = "8" -> 8 [] c = "9" -> 9

RECURSIVE DigitsValue(_)
DigitsValue(ds) ==
    IF ds = <<>> THEN 0
    ELSE 10 * DigitsValue(SubSeq(ds, 1, Len(ds) - 1)) + DigitVal(ds[Len(ds)])

\* strconv.Atoi on a string given as its characters: an optional sign
\* followed by at least one decimal digit, anything else is an error.
Atoi(str) ==
    LET signed == str # <<>> /\ str[1] \in {"+", "-"}
        digits == IF signed THEN Tail(str) ELSE str
    IN  IF digits = <<>> \/ \E i \in 1..Len(digits) : digits[i] \notin DigitChars
          THEN [ok |-> FALSE, n |-> 0]
          ELSE [ok |-> TRUE,
                n |-> IF signed /\ str[1] = "-"
                        THEN 0 - DigitsValue(digits) ELSE DigitsValue(digits)]

\* Mutant: an override of 0 is accepted (n >= 0 instead of n > 0).
GetOptimalWorkerCountZeroOverride(workersEnv, cores, logical) ==
    IF workersEnv # <<>> /\ Atoi(workersEnv).ok /\ Atoi(workersEnv).n >= 0
      THEN Atoi(workersEnv).n
    ELSE IF cores.ok /\ cores.n > 0
      THEN (IF (cores.n * 3) \div 4 < 1 THEN 1 ELSE (cores.n * 3) \div 4)
    ELSE (IF logical \div 2 < 1 THEN 1 ELSE logical \div 2)

\* Mutant: the physical-core branch lacks its lower clamp.
GetOptimalWorkerCountNoClamp(workersEnv, cores, logical) ==
    IF workersEnv # <<>> /\ Atoi(workersEnv).ok /\ Atoi(workersEnv).n > 0
      THEN Atoi(workersEnv).n
    ELSE IF cores.ok /\ cores.n > 0
      THEN (cores.n * 3) \div 4
    ELSE (IF logical \div 2 < 1 THEN 1 ELSE logical \div 2)

\* GetOptimalWorkerCount with the environment value, cpu.Counts(false) and
\* runtime.NumCPU() as inputs.
GetOptimalWorkerCount(workersEnv, cores, logical) ==
    IF workersEnv # <<>> /\ Atoi(workersEnv).ok /\ Atoi(workersEnv).n > 0
      THEN Atoi(workersEnv).n
    ELSE IF cores.ok /\ cores.n > 0
      THEN (IF (cores.n * 3) \div 4 < 1 THEN 1 ELSE (cores.n * 3) \div 4)
    ELSE (IF logical \div 2 < 1 THEN 1 ELSE logical \div 2)

MaxEnvLen == 2
MaxCores == 8

EnvChars == {"0", "1", "4", "-", "+", "a"}

\* Values of ZSTD_WORKERS: every string over EnvChars up to MaxEnvLen
WorkerEnvInputs ==
    UNION {[1..k -> EnvChars] : k \in 0..MaxEnvLen}

\* Results of cpu.Counts(false): an error, or a count (0 on platforms
\* where the count cannot be told)
PhysCoreInputs ==
    {[ok |-> FALSE, n |-> 0]} \cup {[ok |-> TRUE, n |-> k] : k \in 0..MaxCores}

NoWorkerCall ==
    [called |-> FALSE, env |-> <<>>, cores |-> [ok |-> FALSE, n |-> 0],
     logical |-> 0, n |-> 0]

WorkerCallOf(workersEnv, cores, logical) ==
    [called |-> TRUE, env |-> workersEnv, cores |-> cores, logical |-> logical,
     n |-> GetOptimalWorkerCount(workersEnv, cores, logical)]

----------------------------------------------------------------------------
(* Stream sessions.  The codecs themselves (klauspost/compress/zstd and    *)
(* gozstd/libzstd) are external; the wrappers only construct and forward.  *)
(* A compressed stream is kept as its sequence of frame parts: a frame     *)
(* header, data blocks carrying their payload, the last one flagged.       *)

MaxChunk == 2
MaxWrites == 2
BufSize == 2
MaxFailAfter == 2

LevelInputs == {-1, 0, 1, 3, 11, 12, 22, 23}

\* Levels used by the sessions that go on to write: one accepted by both
\* backends, one rejected by both
StreamLevels == {3, 23}

\* failAfter of the sink: NoLimit is a sink that never fails (bytes.Buffer)
NoLimit == -1
FailAfterInputs == {NoLimit} \cup (0..MaxFailAfter)

Hdr == [t |-> "hdr", d |-> <<>>, last |-> FALSE]
Blk(d, last) == [t |-> "blk", d |-> d, last |-> last]
Junk == [t |-> "junk", d |-> <<>>, last |-> FALSE]

NoWriter ==
    [state |-> "none", backend |-> "none", level |-> 0, workers |-> 0,
     damaged |-> FALSE, hdr |-> FALSE, pending |-> <<>>, nwrites |-> 0,
     failed |-> FALSE, latched |-> FALSE, sticky |-> FALSE, hitNow |-> FALSE,
     post |-> FALSE, releases |-> 0, flushed |-> FALSE]

NoReader ==
    [state |-> "none", backend |-> "none", pos |-> 1, inFrame |-> FALSE,
     out |-> <<>>, done |-> "no", releases |-> 0]

Res(op, err, n, len) == [op |-> op, err |-> err, n |-> n, len |-> len]

NoRes == Res("none", "", 0, 0)

NoReq == [backend |-> "none", level |-> 0]

\* failingWriter.Write(p): the parts that still fit are taken, and the call
\* fails when not all of them fit; a sink without limit takes everything.
SinkWrite(parts) ==
    LET room == IF failAfter = NoLimit THEN Len(parts)
                ELSE IF failAfter > Len(sink) THEN failAfter - Len(sink)
                ELSE 0
        taken == IF Len(parts) <= room THEN Len(parts) ELSE room
    IN  [sink |-> sink \o SubSeq(parts, 1, taken), ok |-> Len(parts) <= room]

\* Mutant: out-of-range levels are clamped instead of rejected.
PureGoNewWriterClamped(level) ==
    /\ w.state = "none"
    /\ w' = [NoWriter EXCEPT
               !.state = "open", !.backend = "purego",
               !.level = IF level < 0 THEN 0 ELSE IF level > 11 THEN 11 ELSE level,
               !.workers = GetOptimalWorkerCount(envWorkers, physCores,
                                                 logicalCPUs)]
    /\ wRes' = Res("NewWriter", "", 0, 0)
    /\ wReq' = [backend |-> "purego", level |-> level]
    /\ workerCall' = WorkerCallOf(envWorkers, physCores, logicalCPUs)
    /\ UNCHANGED <<sink, written, r, rRes, failAfter, cgoCalls, selVars,
                   envWorkers, physCores, logicalCPUs, gAvailable, concVars>>

\* PureGoCompressor.NewWriter(w, level)
PureGoNewWriter(level) ==
    /\ w.state = "none"
    /\ wReq' = [backend |-> "purego", level |-> level]
    /\ IF level < 0 \/ level > 11
         THEN /\ wRes' = Res("NewWriter", "invalid compression level", 0, 0)
              /\ UNCHANGED <<w, workerCall>>
         ELSE /\ w' = [NoWriter EXCEPT
                         !.state = "open", !.backend = "purego",
                         !.level = level,
                         !.workers = GetOptimalWorkerCount(envWorkers, physCores,
                                                           logicalCPUs)]
              /\ workerCall' = WorkerCallOf(envWorkers, physCores, logicalCPUs)
              /\ wRes' = Res("NewWriter", "", 0, 0)
    /\ UNCHANGED <<sink, written, r, rRes, failAfter, cgoCalls, selVars,
                   envWorkers, physCores, logicalCPUs, gAvailable, concVars>>

GozstdDefaultCompressionLevel == 3

\* What C.ZSTD_CCtx_setParameter does in GozstdCompressor.NewWriter.  The
\* pointer handed to it is csField.UnsafeAddr(), the address of the Writer's
\* field `cs` inside the Go heap object, not the ZSTD_CStream the field
\* points to: libzstd reads and writes Go memory as if it were a ZSTD_CCtx.
\* That is undefined behaviour; the build can produce any of:
\*   "skipped"   the Writer has no addressable field cs, nothing is called
\*   "rejected"  the call returns an error code, which is logged
\*   "clobbered" the call stores the value into the memory around the Writer
\*   "crash"     the access faults inside C and ends the process
InjectOutcomes == {"skipped", "rejected", "clobbered", "crash"}

\* Mutant: the level is validated before the availability check.
GozstdNewWriterLevelFirst(level, inj) ==
    /\ w.state = "none"
    /\ wReq' = [backend |-> "gozstd", level |-> level]
    /\ IF level < 0 \/ level > 22
         THEN /\ wRes' = Res("NewWriter", "invalid compression level", 0, 0)
              /\ UNCHANGED <<w, workerCall, cgoCalls>>
         ELSE IF ~gAvailable
           THEN /\ wRes' = Res("NewWriter", "libzstd not available", 0, 0)
                /\ UNCHANGED <<w, workerCall, cgoCalls>>
           ELSE /\ w' = [NoWriter EXCEPT
                           !.state = IF inj = "crash" THEN "crashed" ELSE "open",
                           !.backend = "gozstd",
                           !.level = IF level = 0
                                       THEN GozstdDefaultCompressionLevel
                                       ELSE level,
                           !.workers = GetOptimalWorkerCount(envWorkers, physCores,
                                                             logicalCPUs),
                           !.damaged = (inj = "clobbered")]
                /\ workerCall' = WorkerCallOf(envWorkers, physCores, logicalCPUs)
                /\ cgoCalls' = cgoCalls + (IF inj = "skipped" THEN 1 ELSE 2)
                /\ wRes' = Res("NewWriter", IF inj = "crash" THEN "fatal" ELSE "",
                               0, 0)
    /\ UNCHANGED <<sink, written, r, rRes, failAfter, selVars,
                   envWorkers, physCores, logicalCPUs, gAvailable, concVars>>

\* Mutant: out-of-range levels are clamped (level < 1 -> default, > 22 -> 22).
GozstdNewWriterClamped(level, inj) ==
    /\ w.state = "none"
    /\ wReq' = [backend |-> "gozstd", level |-> level]
    /\ IF ~gAvailable
         THEN /\ wRes' = Res("NewWriter", "libzstd not available", 0, 0)
              /\ UNCHANGED <<w, workerCall, cgoCalls>>
         ELSE /\ w' = [NoWriter EXCEPT
                         !.state = IF inj = "crash" THEN "crashed" ELSE "open",
                         !.backend = "gozstd",
                         !.level = IF level < 1
                                     THEN GozstdDefaultCompressionLevel
                                     ELSE IF level > 22 THEN 22 ELSE level,
                         !.workers = GetOptimalWorkerCount(envWorkers, physCores,
                                                           logicalCPUs),
                         !.damaged = (inj = "clobbered")]
              /\ workerCall' = WorkerCallOf(envWorkers, physCores, logicalCPUs)
              /\ cgoCalls' = cgoCalls + (IF inj = "skipped" THEN 1 ELSE 2)
              /\ wRes' = Res("NewWriter", IF inj = "crash" THEN "fatal" ELSE "",
                             0, 0)
    /\ UNCHANGED <<sink, written, r, rRes, failAfter, selVars,
                   envWorkers, physCores, logicalCPUs, gAvailable, concVars>>

\* Mutant: the native writer is created before the level is validated.
GozstdNewWriterAcquireFirst(level, inj) ==
    /\ w.state = "none"
    /\ wReq' = [backend |-> "gozstd", level |-> level]
    /\ IF ~gAvailable
         THEN /\ wRes' = Res("NewWriter", "libzstd not available", 0, 0)
              /\ UNCHANGED <<w, workerCall, cgoCalls>>
         ELSE IF level < 0 \/ level > 22
           THEN /\ wRes' = Res("NewWriter", "invalid compression level", 0, 0)
                /\ cgoCalls' = cgoCalls + 1
                /\ UNCHANGED <<w, workerCall>>
           ELSE /\ w' = [NoWriter EXCEPT
                           !.state = IF inj = "crash" THEN "crashed" ELSE "open",
                           !.backend = "gozstd",
                           !.level = IF level = 0
                                       THEN GozstdDefaultCompressionLevel
                                       ELSE level,
                           !.workers = GetOptimalWorkerCount(envWorkers, physCores,
                                                             logicalCPUs),
                           !.damaged = (inj = "clobbered")]
                /\ workerCall' = WorkerCallOf(envWorkers, physCores, logicalCPUs)
                /\ cgoCalls' = cgoCalls + (IF inj = "skipped" THEN 1 ELSE 2)
                /\ wRes' = Res("NewWriter", IF inj = "crash" THEN "fatal" ELSE "",
                               0, 0)
    /\ UNCHANGED <<sink, written, r, rRes, failAfter, selVars,
                   envWorkers, physCores, logicalCPUs, gAvailable, concVars>>

\* GozstdCompressor.NewWriter(w, level).  gozstd.NewWriterLevel is one call
\* into the native library, C.ZSTD_CCtx_setParameter a second one.
GozstdNewWriter(level, inj) ==
    /\ w.state = "none"
    /\ wReq' = [backend |-> "gozstd", level |-> level]
    /\ IF ~gAvailable
         THEN /\ wRes' = Res("NewWriter", "libzstd not available", 0, 0)
              /\ UNCHANGED <<w, workerCall, cgoCalls>>
         ELSE IF level < 0 \/ level > 22
           THEN /\ wRes' = Res("NewWriter", "invalid compression level", 0, 0)
                /\ UNCHANGED <<w, workerCall, cgoCalls>>
           ELSE /\ w' = [NoWriter EXCEPT
                           !.state = IF inj = "crash" THEN "crashed" ELSE "open",
                           !.backend = "gozstd",
                           !.level = IF level = 0
                                       THEN GozstdDefaultCompressionLevel
                                       ELSE level,
                           !.workers = GetOptimalWorkerCount(envWorkers, physCores,
                                                             logicalCPUs),
                           !.damaged = (inj = "clobbered")]
                /\ workerCall' = WorkerCallOf(envWorkers, physCores, logicalCPUs)
                /\ cgoCalls' = cgoCalls + (IF inj = "skipped" THEN 1 ELSE 2)
                /\ wRes' = Res("NewWriter", IF inj = "crash" THEN "fatal" ELSE "",
                               0, 0)
    /\ UNCHANGED <<sink, written, r, rRes, failAfter, selVars,
                   envWorkers, physCores, logicalCPUs, gAvailable, concVars>>

\* The bytes of the input are numbered in the order they are written, so
\* that loss, duplication and reordering all show in the output.
NextBytes(n) == [i \in 1..n |-> Len(written) + i]

\* The parts an encoder emits for one block: a writer whose memory was
\* clobbered may emit anything.
Emitted(blk) == IF w.damaged THEN {blk, Junk} ELSE {blk}

\* One forwarded call (op) on the writer session that hands `parts` to the
\* sink and leaves `pend` buffered.
\*  - klauspost Encoder: a sink error is stored in the encoder state; with
\*    concurrent block writers a Write may return before the failed sink
\*    write is noticed (surfaced = FALSE), and the stored error is returned
\*    by the next call that waits for the writers; once returned it is
\*    returned by every later call.
\*  - gozstd Writer: flushOutBuf returns the sink's error at once, drops the
\*    buffered output, and keeps no error state.
WriterCall(op, n, parts, pend, st, surfaced) ==
    LET sw == SinkWrite(parts)
        stored == /\ w.backend = "purego"
                  /\ \/ w.sticky
                     \/ w.latched /\ (op # "Write" \/ parts # <<>>)
        rel == IF op = "Close" /\ w.backend = "purego" THEN 1 ELSE 0
        report == ~(w.backend = "purego" /\ op = "Write" /\ ~surfaced)
    IN  IF stored
          THEN /\ UNCHANGED sink
               /\ w' = [w EXCEPT !.state = st, !.sticky = TRUE, !.latched = FALSE,
                                 !.hitNow = FALSE, !.pending = <<>>,
                                 !.nwrites = IF op = "Write" THEN @ + 1 ELSE @,
                                 !.post = (@ \/ w.state = "closed"),
                                 !.flushed = (@ \/ (op = "Flush" /\ w.state = "open")),
                                 !.releases = @ + rel]
               /\ wRes' = Res(op, "write failed", 0, n)
        ELSE IF sw.ok
          THEN /\ sink' = sw.sink
               /\ w' = [w EXCEPT !.state = st, !.pending = pend,
                                 !.hdr = IF op = "Close" THEN FALSE
                                         ELSE (@ \/ parts # <<>>),
                                 !.hitNow = FALSE,
                                 !.nwrites = IF op = "Write" THEN @ + 1 ELSE @,
                                 !.post = (@ \/ w.state = "closed"),
                                 !.flushed = (@ \/ (op = "Flush" /\ w.state = "open")),
                                 !.releases = @ + rel]
               /\ wRes' = Res(op, "", n, n)
        ELSE /\ sink' = sw.sink
             /\ w' = [w EXCEPT !.state = st, !.pending = <<>>,
                               !.hdr = IF op = "Close" THEN FALSE ELSE TRUE,
                               !.failed = (@ \/ (w.state = "open" /\ op # "Close")),
                               !.hitNow = TRUE,
                               !.latched = ~report,
                               !.sticky = (w.backend = "purego" /\ report),
                               !.nwrites = IF op = "Write" THEN @ + 1 ELSE @,
                               !.post = (@ \/ w.state = "closed"),
                               !.flushed = (@ \/ (op = "Flush" /\ w.state = "open")),
                               !.releases = @ + rel]
             /\ wRes' = Res(op, IF report THEN "write failed" ELSE "",
                            IF report THEN 0 ELSE n, n)

\* A call on a closed klauspost Encoder returns ErrEncoderClosed.
ClosedEncoderCall(op, n) ==
    /\ w' = [w EXCEPT !.post = TRUE, !.hitNow = FALSE]
    /\ wRes' = Res(op, "encoder closed", 0, n)
    /\ UNCHANGED sink

\* The frame parts that carry the buffered input `pend` out
FrameParts(b) == (IF w.hdr THEN <<>> ELSE <<Hdr>>) \o <<b>>

\* Write(p) on the writer session: the chunk is taken into the encoder's
\* buffer, which goes out as a block when it is full.  gozstdWriterWrapper
\* embeds *gozstd.Writer and keeps no state of its own: after Close the
\* native writer takes a Write as the start of a new frame.
Write(n, surfaced) ==
    /\ w.state \in {"open", "closed"}
    /\ w.nwrites < MaxWrites
    /\ IF w.state = "closed" /\ w.backend = "purego"
         THEN ClosedEncoderCall("Write", n)
         ELSE LET pend == w.pending \o NextBytes(n)
              IN  IF Len(pend) >= BufSize
                    THEN \E b \in Emitted(Blk(pend, FALSE)) :
                            WriterCall("Write", n, FrameParts(b), <<>>,
                                       w.state, surfaced)
                    ELSE WriterCall("Write", n, <<>>, pend, w.state, surfaced)
    /\ written' = IF wRes'.err = "" THEN written \o NextBytes(n) ELSE written
    /\ UNCHANGED <<r, rRes, failAfter, cgoCalls, wReq, selVars, hostVars, concVars>>

\* Flush() on the writer session: buffered input goes out as a block that
\* does not end the frame.
Flush ==
    /\ w.state \in {"open", "closed"}
    /\ IF w.state = "closed" /\ w.backend = "purego"
         THEN ClosedEncoderCall("Flush", 0)
         ELSE IF w.pending = <<>>
           THEN WriterCall("Flush", 0, <<>>, <<>>, w.state, TRUE)
           ELSE \E b \in Emitted(Blk(w.pending, FALSE)) :
                   WriterCall("Flush", 0, FrameParts(b), <<>>, w.state, TRUE)
    /\ UNCHANGED <<written, r, rRes, failAfter, cgoCalls, wReq, selVars, hostVars, concVars>>

\* Mutant: Close reports success whatever the sink did.
CloseWriterSwallow ==
    /\ w.state = "open"
    /\ w' = [w EXCEPT !.state = "closed", !.pending = <<>>, !.hdr = FALSE,
                      !.hitNow = FALSE,
                      !.releases = @ + (IF w.backend = "purego" THEN 1 ELSE 0)]
    /\ sink' = SinkWrite(FrameParts(Blk(w.pending, TRUE))).sink
    /\ wRes' = Res("Close", "", 0, 0)
    /\ UNCHANGED <<written, r, rRes, failAfter, cgoCalls, wReq, selVars, hostVars, concVars>>

\* Close() on the writer session: the frame is finalized.  The pure Go
\* encoder writes nothing at all when no input was ever written.  The pure
\* Go Encoder.Close gives up what the encoder holds; gozstdWriterWrapper's
\* Close is gozstd.Writer.Close, which ends the frame and does not call
\* Release, the call that frees the ZSTD_CStream and the C buffers.
CloseWriter ==
    /\ w.state = "open"
    /\ IF w.backend = "purego" /\ ~w.hdr /\ w.pending = <<>>
         THEN WriterCall("Close", 0, <<>>, <<>>, "closed", TRUE)
         ELSE \E b \in Emitted(Blk(w.pending, TRUE)) :
                 WriterCall("Close", 0, FrameParts(b), <<>>, "closed", TRUE)
    /\ UNCHANGED <<written, r, rRes, failAfter, cgoCalls, wReq, selVars, hostVars, concVars>>

\* PureGoCompressor.NewReader(r) on the closed writer's output
PureGoNewReader ==
    /\ w.state = "closed"
    /\ r.state = "none"
    /\ r' = [NoReader EXCEPT !.state = "open", !.backend = "purego"]
    /\ rRes' = Res("NewReader", "", 0, 0)
    /\ UNCHANGED <<w, sink, written, wRes, failAfter, cgoCalls, wReq,
                   selVars, hostVars, concVars>>

\* GozstdCompressor.NewReader(r) on the closed writer's output
GozstdNewReader ==
    /\ w.state = "closed"
    /\ r.state = "none"
    /\ IF ~gAvailable
         THEN /\ rRes' = Res("NewReader", "libzstd not available", 0, 0)
              /\ UNCHANGED <<r, cgoCalls>>
         ELSE /\ r' = [NoReader EXCEPT !.state = "open", !.backend = "gozstd"]
              /\ cgoCalls' = cgoCalls + 1
              /\ rRes' = Res("NewReader", "", 0, 0)
    /\ UNCHANGED <<w, sink, written, wRes, failAfter, wReq, selVars, hostVars, concVars>>

\* The decoder's next step on source src at position pos: the payload of
\* the next non-empty block, a clean end of stream, or an error.
RECURSIVE DecodeNext(_, _, _)
DecodeNext(src, pos, inFrame) ==
    IF pos > Len(src)
      THEN [kind |-> IF inFrame THEN "error" ELSE "eof",
            d |-> <<>>, pos |-> pos, inFrame |-> inFrame]
    ELSE IF src[pos].t = "hdr" /\ ~inFrame
      THEN DecodeNext(src, pos + 1, TRUE)
    ELSE IF src[pos].t = "blk" /\ inFrame
      THEN IF src[pos].d = <<>>
             THEN DecodeNext(src, pos + 1, ~src[pos].last)
             ELSE [kind |-> "data", d |-> src[pos].d, pos |-> pos + 1,
                   inFrame |-> ~src[pos].last]
    ELSE [kind |-> "error", d |-> <<>>, pos |-> pos, inFrame |-> inFrame]

\* Mutant: a decoding error is swallowed and reported as the end of the stream.
ReadSwallow ==
    /\ r.state = "open" /\ r.done = "no"
    /\ LET nx == DecodeNext(sink, r.pos, r.inFrame)
       IN  /\ r' = [r EXCEPT !.pos = nx.pos, !.inFrame = nx.inFrame,
                             !.out = @ \o nx.d,
                             !.done = IF nx.kind = "data" THEN "no" ELSE "eof"]
           /\ rRes' = Res("Read", IF nx.kind = "data" THEN "" ELSE "EOF",
                          Len(nx.d), 0)
    /\ UNCHANGED <<w, sink, written, wRes, failAfter, cgoCalls, wReq,
                   selVars, hostVars, concVars>>

\* Read(p) on the reader session.  After Close the klauspost Decoder
\* returns ErrDecoderClosed; the gozstd Reader was Released (its stream and
\* buffers freed and set to nil), and Read dereferences them.
Read ==
    /\ \/ r.state = "open" /\ r.done = "no"
       \/ r.state = "closed"
    /\ IF r.state = "closed"
         THEN IF r.backend = "purego"
                THEN /\ rRes' = Res("Read", "decoder closed", 0, 0)
                     /\ UNCHANGED r
                ELSE /\ rRes' = Res("Read", "panic", 0, 0)
                     /\ r' = [r EXCEPT !.state = "panicked"]
         ELSE LET nx == DecodeNext(sink, r.pos, r.inFrame)
              IN  /\ r' = [r EXCEPT !.pos = nx.pos, !.inFrame = nx.inFrame,
                                    !.out = @ \o nx.d,
                                    !.done = IF nx.kind = "data" THEN "no"
                                             ELSE nx.kind]
                  /\ rRes' = Res("Read",
                                 IF nx.kind = "error" THEN "corrupt input"
                                 ELSE IF nx.kind = "eof" THEN "EOF" ELSE "",
                                 Len(nx.d), 0)
    /\ UNCHANGED <<w, sink, written, wRes, failAfter, cgoCalls, wReq,
                   selVars, hostVars, concVars>>

\* Close() on the reader session: zstdReadCloser.Close closes the Decoder,
\* gozstdReaderWrapper.Close calls Reader.Release.
CloseReader ==
    /\ r.state = "open"
    /\ r' = [r EXCEPT !.state = "closed", !.releases = @ + 1]
    /\ rRes' = Res("Close", "", 0, 0)
    /\ UNCHANGED <<w, sink, written, wRes, failAfter, cgoCalls, wReq,
                   selVars, hostVars, concVars>>

----------------------------------------------------------------------------
(* Concurrent sessions: every goroutine opens its own writer on its own    *)
(* bytes.Buffer through one shared backend instance, writes its own data,  *)
(* closes, and reads the buffer back through a reader of the same backend. *)

NumSessions == 2

Sessions == 1..NumSessions

\* Level passed by every goroutine
SessLevel == 3

NoSession ==
    [state |-> "none", backend |-> "none", workers |-> 0, nbWorkers |-> 0,
     envAt |-> <<>>, damaged |-> FALSE, pending |-> <<>>,
     sink |-> <<>>, written |-> <<>>, rstate |-> "none", pos |-> 1,
     inFrame |-> FALSE, out |-> <<>>, done |-> "no"]

\* testData[workerID]: every goroutine's bytes are its own
SessBytes(s, n) == [i \in 1..n |-> 10 * s + Len(sess[s].written) + i]

SessEnvInputs == {<<>>, <<"2">>, <<"3">>}

\* os.Setenv("ZSTD_WORKERS", v) between two sessions' steps
SetenvWorkers ==
    /\ \E v \in SessEnvInputs \ {envWorkers} : envWorkers' = v
    /\ UNCHANGED <<physCores, logicalCPUs, gAvailable, workerCall,
                   selVars, streamVars, concVars>>

\* impl.compressor.NewWriter(&compressed, 3) by goroutine s, on the backend
\* instance all goroutines share.
\*  - workers is what GetOptimalWorkerCount() returns during this call;
\*    nbWorkers is the concurrency the session's encoder is configured with:
\*    PureGoCompressor passes workers to zstd.WithEncoderConcurrency;
\*    GozstdCompressor passes it to C.ZSTD_CCtx_setParameter on the address
\*    of the Writer's field cs, never on the ZSTD_CStream the Writer
\*    compresses with, which keeps libzstd's default of 0.
\*  - what that call overwrites (inj = "clobbered") is Go heap memory next
\*    to the field: the new Writer's own, or that of another live session
\*    (v); a fault inside C (inj = "crash") ends the process and with it
\*    every session.
SessNewWriter(s, backend, inj, v) ==
    /\ sess[s].state = "none"
    /\ \A t \in Sessions : t < s => sess[t].state # "none"
    /\ \A t \in Sessions : sess[t].backend \in {"none", backend}
    /\ v = s \/ sess[v].state \in {"open", "closed"}
    /\ backend = "gozstd" => gAvailable
    /\ SessLevel >= 0 /\ SessLevel <= (IF backend = "purego" THEN 11 ELSE 22)
    /\ workerCall' = WorkerCallOf(envWorkers, physCores, logicalCPUs)
    /\ LET n == GetOptimalWorkerCount(envWorkers, physCores, logicalCPUs)
           new == [NoSession EXCEPT
                     !.state = "open", !.backend = backend,
                     !.workers = n,
                     !.nbWorkers = IF backend = "purego" THEN n ELSE 0,
                     !.envAt = envWorkers]
       IN  IF backend = "gozstd" /\ inj = "crash"
             THEN sess' = [t \in Sessions |->
                             [(IF t = s THEN new ELSE sess[t])
                                EXCEPT !.state = "crashed"]]
           ELSE IF backend = "gozstd" /\ inj = "clobbered"
             THEN sess' = [t \in Sessions |->
                             [(IF t = s THEN new ELSE sess[t])
                                EXCEPT !.damaged = (@ \/ t = v)]]
           ELSE sess' = [sess EXCEPT ![s] = new]
    /\ UNCHANGED <<envWorkers, physCores, logicalCPUs, gAvailable,
                   selVars, streamVars>>

\* The parts session s's encoder emits for one block
SessEmitted(s, blk) == IF sess[s].damaged THEN {blk, Junk} ELSE {blk}

\* The frame parts that carry a block of session s out
SessFrameParts(s, b) == (IF sess[s].sink = <<>> THEN <<Hdr>> ELSE <<>>) \o <<b>>

\* w.Write(data) by goroutine s, the one Write of its round trip; the sink
\* is a bytes.Buffer and never fails
SessWrite(s, n) ==
    /\ sess[s].state = "open"
    /\ sess[s].written = <<>>
    /\ LET bytes == SessBytes(s, n)
           pend == sess[s].pending \o bytes
       IN  IF Len(pend) >= BufSize
             THEN \E b \in SessEmitted(s, Blk(pend, FALSE)) :
                     sess' = [sess EXCEPT
                                ![s].sink = @ \o SessFrameParts(s, b),
                                ![s].pending = <<>>,
                                ![s].written = @ \o bytes]
             ELSE sess' = [sess EXCEPT
                             ![s].pending = pend,
                             ![s].written = @ \o bytes]
    /\ UNCHANGED <<selVars, hostVars, streamVars>>

\* w.Close() by goroutine s
SessClose(s) ==
    /\ sess[s].state = "open"
    /\ IF sess[s].backend = "purego" /\ sess[s].sink = <<>>
          /\ sess[s].pending = <<>>
         THEN sess' = [sess EXCEPT ![s].state = "closed"]
         ELSE \E b \in SessEmitted(s, Blk(sess[s].pending, TRUE)) :
                 sess' = [sess EXCEPT
                            ![s].state = "closed",
                            ![s].sink = @ \o SessFrameParts(s, b),
                            ![s].pending = <<>>]
    /\ UNCHANGED <<selVars, hostVars, streamVars>>

\* impl.compressor.NewReader(&compressed) by goroutine s
SessNewReader(s) ==
    /\ sess[s].state = "closed"
    /\ sess[s].rstate = "none"
    /\ sess' = [sess EXCEPT ![s].rstate = "open"]
    /\ UNCHANGED <<selVars, hostVars, streamVars>>

\* One Read of io.ReadAll(r) by goroutine s; r.Close() follows the last one
SessRead(s) ==
    /\ sess[s].state = "closed"
    /\ sess[s].rstate = "open"
    /\ LET nx == DecodeNext(sess[s].sink, sess[s].pos, sess[s].inFrame)
       IN  sess' = [sess EXCEPT
                      ![s].pos = nx.pos, ![s].inFrame = nx.inFrame,
                      ![s].out = @ \o nx.d,
                      ![s].done = IF nx.kind = "data" THEN "no" ELSE nx.kind,
                      ![s].rstate = IF nx.kind = "data" THEN "open"
                                    ELSE "closed"]
    /\ UNCHANGED <<selVars, hostVars, streamVars>>

----------------------------------------------------------------------------

Init ==
    /\ envForcePureGo \in ForcePureGoValues
    /\ envForceImpl \in ForceImplValues
    /\ libzstd \in ProbeOutcomes
    /\ once = "idle"
    /\ defaultCompressor = Nil
    /\ pc = [p \in Callers |-> "idle"]
    /\ result = [p \in Callers |-> Nil]
    /\ calls = 0
    /\ afterSet = [p \in Callers |-> FALSE]
    /\ early = [p \in Callers |-> FALSE]
    /\ probeRuns = 0
    /\ probeRet = Nil
    /\ nextId = 1
    /\ setCount = 0
    /\ lastSet = Nil
    /\ setWhenDone = FALSE
    /\ selForce = "unread"
    /\ selImpl = "unread"
    /\ autoSel = Nil
    /\ envWorkers = <<>>
    /\ physCores = [ok |-> TRUE, n |-> 4]
    /\ logicalCPUs = 8
    /\ gAvailable = TRUE
    /\ workerCall = NoWorkerCall
    /\ failAfter = NoLimit
    /\ cgoCalls = 0
    /\ wReq = NoReq
    /\ w = NoWriter
    /\ sink = <<>>
    /\ written = <<>>
    /\ wRes = NoRes
    /\ r = NoReader
    /\ rRes = NoRes
    /\ sess = [s \in Sessions |-> NoSession]

Next ==
    \/ \E p \in Callers : Call(p)
    \/ \E p \in Callers : OnceDo(p)
    \/ \E p \in Callers : FRun(p)
    \/ \E p \in Callers : Return(p)
    \/ \E c \in SetArgs(nextId) : SetCompressor(c)
    \/ Setenv

Spec == Init /\ [][Next]_vars

\* One writer session followed by one reader session on its output, on a
\* host where the selection plays no part.
StreamInit ==
    /\ envForcePureGo = ""
    /\ envForceImpl = ""
    /\ libzstd = "works"
    /\ once = "idle"
    /\ defaultCompressor = Nil
    /\ pc = [p \in Callers |-> "idle"]
    /\ result = [p \in Callers |-> Nil]
    /\ calls = 0
    /\ afterSet = [p \in Callers |-> FALSE]
    /\ early = [p \in Callers |-> FALSE]
    /\ probeRuns = 0
    /\ probeRet = Nil
    /\ nextId = 1
    /\ setCount = 0
    /\ lastSet = Nil
    /\ setWhenDone = FALSE
    /\ selForce = "unread"
    /\ selImpl = "unread"
    /\ autoSel = Nil
    /\ envWorkers \in {<<>>, <<"2">>}
    /\ physCores = [ok |-> TRUE, n |-> 4]
    /\ logicalCPUs = 8
    /\ gAvailable \in BOOLEAN
    /\ workerCall = NoWorkerCall
    /\ failAfter \in FailAfterInputs
    /\ cgoCalls = 0
    /\ wReq = NoReq
    /\ w = NoWriter
    /\ sink = <<>>
    /\ written = <<>>
    /\ wRes = NoRes
    /\ r = NoReader
    /\ rRes = NoRes
    /\ sess = [s \in Sessions |-> NoSession]

StreamNext ==
    \/ \E level \in StreamLevels : PureGoNewWriter(level)
    \/ \E level \in StreamLevels, inj \in InjectOutcomes : GozstdNewWriter(level, inj)
    \/ \E n \in 0..MaxChunk, surfaced \in BOOLEAN : Write(n, surfaced)
    \/ Flush
    \/ CloseWriter
    \/ PureGoNewReader
    \/ GozstdNewReader
    \/ Read
    \/ CloseReader

StreamSpec == StreamInit /\ [][StreamNext]_vars

\* NewWriter of either backend at every level of interest
LevelNext ==
    \/ \E level \in LevelInputs : PureGoNewWriter(level)
    \/ \E level \in LevelInputs, inj \in InjectOutcomes : GozstdNewWriter(level, inj)

LevelSpec == StreamInit /\ [][LevelNext]_vars

\* A call of GetOptimalWorkerCount on a host with the given environment
\* value and core counts.
CallGetOptimalWorkerCount ==
    /\ ~workerCall.called
    /\ workerCall' = WorkerCallOf(envWorkers, physCores, logicalCPUs)
    /\ UNCHANGED <<envWorkers, physCores, logicalCPUs, gAvailable,
                   selVars, streamVars, concVars>>

WorkerInit ==
    /\ envForcePureGo = ""
    /\ envForceImpl = ""
    /\ libzstd = "works"
    /\ once = "idle"
    /\ defaultCompressor = Nil
    /\ pc = [p \in Callers |-> "idle"]
    /\ result = [p \in Callers |-> Nil]
    /\ calls = 0
    /\ afterSet = [p \in Callers |-> FALSE]
    /\ early = [p \in Callers |-> FALSE]
    /\ probeRuns = 0
    /\ probeRet = Nil
    /\ nextId = 1
    /\ setCount = 0
    /\ lastSet = Nil
    /\ setWhenDone = FALSE
    /\ selForce = "unread"
    /\ selImpl = "unread"
    /\ autoSel = Nil
    /\ envWorkers \in WorkerEnvInputs
    /\ physCores \in PhysCoreInputs
    /\ logicalCPUs \in 1..MaxCores
    /\ gAvailable = TRUE
    /\ workerCall = NoWorkerCall
    /\ failAfter = NoLimit
    /\ cgoCalls = 0
    /\ wReq = NoReq
    /\ w = NoWriter
    /\ sink = <<>>
    /\ written = <<>>
    /\ wRes = NoRes
    /\ r = NoReader
    /\ rRes = NoRes
    /\ sess = [s \in Sessions |-> NoSession]

WorkerNext == CallGetOptimalWorkerCount

WorkerSpec == WorkerInit /\ [][WorkerNext]_vars

\* Goroutines running their round trips side by side on one backend
\* instance, on a host where ZSTD_WORKERS is changed while they run.
ConcInit ==
    /\ envForcePureGo = ""
    /\ envForceImpl = ""
    /\ libzstd = "works"
    /\ once = "idle"
    /\ defaultCompressor = Nil
    /\ pc = [p \in Callers |-> "idle"]
    /\ result = [p \in Callers |-> Nil]
    /\ calls = 0
    /\ afterSet = [p \in Callers |-> FALSE]
    /\ early = [p \in Callers |-> FALSE]
    /\ probeRuns = 0
    /\ probeRet = Nil
    /\ nextId = 1
    /\ setCount = 0
    /\ lastSet = Nil
    /\ setWhenDone = FALSE
    /\ selForce = "unread"
    /\ selImpl = "unread"
    /\ autoSel = Nil
    /\ envWorkers \in SessEnvInputs
    /\ physCores = [ok |-> TRUE, n |-> 4]
    /\ logicalCPUs = 8
    /\ gAvailable = TRUE
    /\ workerCall = NoWorkerCall
    /\ failAfter = NoLimit
    /\ cgoCalls = 0
    /\ wReq = NoReq
    /\ w = NoWriter
    /\ sink = <<>>
    /\ written = <<>>
    /\ wRes = NoRes
    /\ r = NoReader
    /\ rRes = NoRes
    /\ sess = [s \in Sessions |-> NoSession]

ConcNext ==
    \/ SetenvWorkers
    \/ \E s \in Sessions, backend \in {"purego", "gozstd"},
          inj \in InjectOutcomes, v \in Sessions : SessNewWriter(s, backend, inj, v)
    \/ \E s \in Sessions, n \in 1..MaxChunk : SessWrite(s, n)
    \/ \E s \in Sessions : SessClose(s)
    \/ \E s \in Sessions : SessNewReader(s)
    \/ \E s \in Sessions : SessRead(s)

ConcSpec == ConcInit /\ [][ConcNext]_vars

----------------------------------------------------------------------------
(* Properties of the selection *)

\* C1: the native probe is executed at most once by GetCompressor, and all
\* callers that entered GetCompressor before the selection had completed
\* and have returned hold the same instance (no SetCompressor involved).
C1_SingleFlight ==
    /\ probeRuns <= 1
    /\ setCount = 0 =>
          \A p, q \in Callers :
              (pc[p] = "returned" /\ early[p] /\ pc[q] = "returned" /\ early[q])
                  => result[p] = result[q]

\* Two concurrent first-time callers have both returned the one probed instance.
C1_Witness ==
    \E p, q \in Callers :
        /\ p # q
        /\ pc[p] = "returned" /\ early[p]
        /\ pc[q] = "returned" /\ early[q]
        /\ setCount = 0 /\ probeRuns = 1
        /\ result[p] = result[q] /\ result[p].kind = "gozstd"

\* C2: GetCompressor never fails: no call panics, and every call returns a
\* non-nil backend with a non-empty Name and MaxCompressionLevel >= 1.
C2_NeverFails ==
    \A p \in Callers :
        /\ pc[p] # "panicked"
        /\ (pc[p] = "returned" /\ setCount = 0) =>
              /\ result[p] # Nil
              /\ Name(result[p]) # ""
              /\ MaxCompressionLevel(result[p]) >= 1

\* C3: a fault of the probe's encode is caught inside NewGozstdCompressor,
\* which then returns an object reporting "not available", and no panic
\* reaches GetCompressor's caller.
C3_ProbeFaultContained ==
    (probeRuns > 0 /\ libzstd = "panic") =>
        /\ probeRet # Nil
        /\ ~IsLibzstdAvailable(probeRet)
        /\ \A p \in Callers : pc[p] # "panicked"

\* C4: absent SetCompressor, every GetCompressor call returns the instance
\* the once-guarded selection chose, and once the selection is done it is
\* neither re-decided nor replaced.
C4_Idempotent ==
    /\ [](setCount = 0 =>
            \A p \in Callers : pc[p] = "returned" => result[p] = autoSel)
    /\ [][(once = "done" /\ setCount' = setCount) =>
            (/\ once' = "done"
             /\ autoSel' = autoSel
             /\ probeRuns' = probeRuns
             /\ defaultCompressor' = defaultCompressor)]_vars

\* After more calls than there are callers, a repeated call has returned
\* the selected instance.
C4_Witness ==
    \E p \in Callers :
        /\ calls > NumCallers
        /\ \A q \in Callers : pc[q] = "returned"
        /\ setCount = 0
        /\ result[p] = autoSel /\ autoSel # Nil

C6_DecisionOrder ==
    once = "done" =>
        /\ autoSel # Nil
        /\ IF selForce = "1"
             THEN autoSel = NewPureGoCompressor /\ probeRuns = 0
             ELSE IF libzstd = "works"
                    THEN autoSel.kind = "gozstd"
                    ELSE autoSel = NewPureGoCompressor
        /\ IsLibzstdAvailable(autoSel) <=> (selForce # "1" /\ libzstd = "works")

\* C7: with the native library available (and STARGZ_FORCE_PURE_GO_ZSTD
\* not set), ZSTD_FORCE_IMPLEMENTATION = klauspost at selection time yields
\* the portable backend (max level <= 11) and ZSTD_FORCE_IMPLEMENTATION =
\* gozstd yields the native backend.
C7_ForcedImplementation ==
    (once = "done" /\ libzstd = "works" /\ selForce # "1") =>
        /\ selImpl = "klauspost" =>
              /\ ~IsLibzstdAvailable(autoSel)
              /\ MaxCompressionLevel(autoSel) <= PureGoMaxLevel
        /\ selImpl = "gozstd" => IsLibzstdAvailable(autoSel)

\* C8: with an unrecognized or empty ZSTD_FORCE_IMPLEMENTATION, selection
\* does not fail: it detects automatically (native if the probe succeeds,
\* else portable) and yields a non-nil backend.
C8_UnrecognizedOverride ==
    (once = "done" /\ selImpl \in {"", "invalid"}) =>
        /\ \A p \in Callers : pc[p] # "panicked"
        /\ autoSel # Nil
        /\ selForce # "1" =>
              (IsLibzstdAvailable(autoSel) <=> libzstd = "works")

----------------------------------------------------------------------------
(* Properties of the stream sessions *)

C11_Lifecycle ==
    [][/\ w.state = "closed" =>
            /\ sink' = sink
            /\ w'.state = "closed"
            /\ wRes' # wRes => wRes'.err = "encoder closed"
       /\ r.state = "closed" =>
            /\ r'.state = "closed"
            /\ rRes' # rRes => rRes'.err = "decoder closed"
       /\ (w.state = "open" /\ w' # w) =>
            w'.state = (IF wRes'.op = "Close" THEN "closed" ELSE "open")
       /\ (r.state = "open" /\ r' # r) =>
            r'.state = (IF rRes'.op = "Close" THEN "closed" ELSE "open")]_vars

\* C12: the backend-held resource of a session is released exactly once,
\* by Close: not before Close returns, and exactly once when it has
\* returned, for writer and reader sessions of either backend, also after
\* a failed Write or Flush.
C12_ReleasedOnce ==
    /\ w.state = "open" => w.releases = 0
    /\ w.state = "closed" => w.releases = 1
    /\ r.state = "open" => r.releases = 0
    /\ r.state = "closed" => r.releases = 1

\* C13: whatever the worker-count injection does, the native NewWriter (at
\* an accepted level, library available) returns a usable, undamaged
\* writer and a nil error; no fault of the injection reaches the caller.
C13_InjectionContained ==
    (/\ wRes.op = "NewWriter" /\ wReq.backend = "gozstd" /\ gAvailable
     /\ wReq.level >= 0 /\ wReq.level <= GozstdMaxLevel) =>
        /\ wRes.err = ""
        /\ w.state = "open"
        /\ ~w.damaged

ReqInstance ==
    IF wReq.backend = "purego" THEN NewPureGoCompressor
    ELSE GozstdCompressor(gAvailable, 1)

----------------------------------------------------------------------------
(* Properties of the worker heuristic *)

\* The decimal digits in order; a digit's value is its position minus one
Numerals == <<"0", "1", "2", "3", "4", "5", "6", "7", "8", "9">>

\* Sum of value * 10^place over the digits ds[i..Len(ds)]
RECURSIVE PlaceSum(_, _)
PlaceSum(ds, i) ==
    IF i > Len(ds) THEN 0
    ELSE ((CHOOSE k \in 1..10 : Numerals[k] = ds[i]) - 1) * 10 ^ (Len(ds) - i)
           + PlaceSum(ds, i + 1)

\* The positive integer an override string stands for (an optional plus
\* sign, then decimal digits only), 0 if it stands for none
PositiveOverride(str) ==
    LET ds == IF str # <<>> /\ str[1] = "+" THEN Tail(str) ELSE str
    IN  IF ds = <<>> \/ \E i \in 1..Len(ds) : \A k \in 1..10 : Numerals[k] # ds[i]
          THEN 0
          ELSE PlaceSum(ds, 1)

AtLeastOne(x) == IF x >= 1 THEN x ELSE 1

\* C18 as stated: the result is the override if it parses as an integer
\* n > 0; otherwise max(1, physical*3 div 4) when the physical count is
\* obtainable; otherwise max(1, logical div 2).
C18_Original ==
    workerCall.called =>
        workerCall.n =
            IF PositiveOverride(workerCall.env) > 0
              THEN PositiveOverride(workerCall.env)
            ELSE IF workerCall.cores.ok
              THEN AtLeastOne((workerCall.cores.n * 3) \div 4)
            ELSE AtLeastOne(workerCall.logical \div 2)

\* C18 amended: the physical-core rule applies when the physical count is
\* obtainable and positive; a reported count of 0 is treated like a
\* failure to obtain it.
C18_ReferencePolicy ==
    workerCall.called =>
        workerCall.n =
            IF PositiveOverride(workerCall.env) > 0
              THEN PositiveOverride(workerCall.env)
            ELSE IF workerCall.cores.ok /\ workerCall.cores.n > 0
              THEN AtLeastOne((workerCall.cores.n * 3) \div 4)
            ELSE AtLeastOne(workerCall.logical \div 2)

\* With the override "-1" and a reported physical count of 0 the call
\* returned half of the 8 logical CPUs.
C18_Witness ==
    /\ workerCall.called
    /\ workerCall.env = <<"-", "1">>
    /\ workerCall.cores = [ok |-> TRUE, n |-> 0]
    /\ workerCall.logical = 8
    /\ workerCall.n = 4

\* C19: GetOptimalWorkerCount returns a value >= 1 for every override
\* string and every reported physical and logical core count.
C19_AtLeastOne ==
    workerCall.called => workerCall.n >= 1

\* One physical core and no usable override: 1*3 div 4 = 0 was raised to 1.
C19_Witness ==
    /\ workerCall.called
    /\ workerCall.env = <<"0">>
    /\ workerCall.cores = [ok |-> TRUE, n |-> 1]
    /\ workerCall.n = 1

----------------------------------------------------------------------------
(* Sink failure *)

----------------------------------------------------------------------------
(* Corrupt input, Flush, empty streams *)

\* src[i..] is a sequence of complete frames: each a header, any number of
\* blocks, the last one flagged
RECURSIVE CompleteFrames(_, _, _)
CompleteFrames(src, i, open) ==
    IF i > Len(src) THEN ~open
    ELSE IF open
      THEN src[i].t = "blk" /\ CompleteFrames(src, i + 1, ~src[i].last)
      ELSE src[i].t = "hdr" /\ CompleteFrames(src, i + 1, TRUE)

----------------------------------------------------------------------------
(* Further properties of the selection *)

\* The backend instances the selection state holds
Instances ==
    ({defaultCompressor, probeRet, lastSet, autoSel}
       \cup {result[p] : p \in Callers}) \ {Nil}

\* C24: capability record of every backend instance (portable, native
\* available, native unavailable): MaxCompressionLevel() >= 0, and it is 22
\* if IsLibzstdAvailable() is true, otherwise 11.
C24_Capability ==
    \A c \in Instances :
        /\ MaxCompressionLevel(c) >= 0
        /\ MaxCompressionLevel(c) = (IF IsLibzstdAvailable(c) THEN 22 ELSE 11)

\* C26: the force-portable override is read only by the first selection:
\* once the selection is done, the value it read, the instance it chose
\* and the number of probe runs never change, and (absent SetCompressor)
\* every call that began after the selection returns the chosen instance,
\* whatever the override is by then.
C26_OverrideReadOnce ==
    /\ [][once = "done" =>
            (/\ once' = "done"
             /\ selForce' = selForce
             /\ autoSel' = autoSel
             /\ probeRuns' = probeRuns)]_vars
    /\ [](setCount = 0 =>
            \A p \in Callers :
                (pc[p] = "returned" /\ ~early[p]) => result[p] = autoSel)

\* The override was set after a selection made without it, and a call that
\* began after the selection returned the native instance all the same.
C26_Witness ==
    \E p \in Callers :
        /\ once = "done" /\ selForce = "" /\ envForcePureGo = "1"
        /\ setCount = 0
        /\ pc[p] = "returned" /\ ~early[p]
        /\ result[p] = autoSel /\ autoSel.kind = "gozstd"

\* C27: when the force-portable override was set at the first selection,
\* GetCompressor never runs the native probe and the selected backend is
\* the portable one, whatever the probe would have reported.
C27_ForcedNoProbe ==
    selForce = "1" =>
        /\ probeRuns = 0
        /\ probeRet = Nil
        /\ autoSel = NewPureGoCompressor
        /\ \A p \in Callers : pc[p] # "panicked"

\* On a host whose probe would panic, the forced selection has returned
\* the portable backend without probing.
C27_Witness ==
    \E p \in Callers :
        /\ selForce = "1" /\ libzstd = "panic" /\ probeRuns = 0
        /\ pc[p] = "returned" /\ setCount = 0
        /\ result[p] = NewPureGoCompressor

\* C28: whatever the interleaving of GetCompressor and SetCompressor(c)
\* calls with non-nil c, a GetCompressor call returns the automatically
\* selected instance or the argument of the most recently completed
\* SetCompressor; never nil and never another instance.
C28_ReturnedValue ==
    [][\A p \in Callers :
          (pc[p] = "ret" /\ pc'[p] = "returned") =>
              /\ result'[p] # Nil
              /\ \/ result'[p] = autoSel
                 \/ setCount > 0 /\ result'[p] = lastSet]_vars

C29_WorkerCount ==
    /\ [](\A s \in Sessions :
            /\ sess[s].state \in {"open", "closed"} =>
                 /\ sess[s].workers = GetOptimalWorkerCount(sess[s].envAt,
                                                            physCores, logicalCPUs)
                 /\ sess[s].nbWorkers = sess[s].workers
            /\ sess[s].done # "no" =>
                 (sess[s].done = "eof" /\ sess[s].out = sess[s].written))
    /\ [][envWorkers' # envWorkers => sess' = sess]_vars

\* C30: a NewWriter call that returns an error changes nothing but the
\* record of the call: no writer session exists, nothing is written to the
\* sink, no call into the native library and no worker-count evaluation is
\* made, and the backend instance and the selection state are the same, so
\* that the NewWriter calls possible afterwards are those possible before.
C30_FailedNewWriter ==
    /\ [][(/\ wRes'.op = "NewWriter"
           /\ wRes'.err \in {"invalid compression level", "libzstd not available"})
            => (/\ w' = w /\ w = NoWriter
                /\ sink' = sink /\ written' = written
                /\ cgoCalls' = cgoCalls /\ workerCall' = workerCall
                /\ gAvailable' = gAvailable /\ envWorkers' = envWorkers
                /\ r' = r /\ selVars' = selVars)]_vars
    /\ []((/\ wRes.op = "NewWriter"
           /\ wRes.err \in {"invalid compression level", "libzstd not available"})
            => (/\ cgoCalls = 0 /\ ~workerCall.called /\ sink = <<>>
                /\ ENABLED PureGoNewWriter(3)))

C30_Witness ==
    /\ wRes.op = "NewWriter" /\ wRes.err = "invalid compression level"
    /\ wReq.backend = "gozstd" /\ wReq.level = 23 /\ gAvailable
    /\ w = NoWriter /\ cgoCalls = 0 /\ sink = <<>>

====
